---- MODULE Spec2Model ----
(***************************************************************************)
(* Model of the forecasting engine of ryOS (scripts/calculate-weather.py)  *)
(* and of the producers of the documents it reads.                         *)
(*                                                                         *)
(* Numbers.  Python floats are modelled as exact rationals <<n, d>> with   *)
(* d > 0 and gcd(n, d) = 1.  An absent value (Python None) is the empty    *)
(* tuple <<>>.  A formatted decimal string such as "+0.50" or "-0.25" is   *)
(* the pair <<sign, cents>>: its sign character (or "" when the string     *)
(* starts with a digit) and the digits after it as hundredths.             *)
(***************************************************************************)
EXTENDS Integers, Sequences, FiniteSets, TLC

None == <<>>

Abs(x) == IF x < 0 THEN -x ELSE x

RECURSIVE GCD(_, _)
GCD(a, b) == IF b = 0 THEN a ELSE GCD(b, a % b)

\* The rational n/d in lowest terms with a positive denominator.
Rat(n, d) ==
    LET s == IF d < 0 THEN -1 ELSE 1
        g == GCD(Abs(n), Abs(d))
    IN  <<(s * n) \div g, (s * d) \div g>>

Int2Rat(k) == <<k, 1>>
Zero == <<0, 1>>
One == <<1, 1>>
Half == <<1, 2>>

RAdd(x, y) == Rat(x[1] * y[2] + y[1] * x[2], x[2] * y[2])
RSub(x, y) == Rat(x[1] * y[2] - y[1] * x[2], x[2] * y[2])
RMul(x, y) == Rat(x[1] * y[1], x[2] * y[2])
RDiv(x, y) == Rat(x[1] * y[2], x[2] * y[1])
RLt(x, y) == x[1] * y[2] < y[1] * x[2]
RLe(x, y) == x[1] * y[2] <= y[1] * x[2]
RGt(x, y) == RLt(y, x)
RGe(x, y) == RLe(y, x)
RMin(x, y) == IF RLt(y, x) THEN y ELSE x
RMax(x, y) == IF RGt(y, x) THEN y ELSE x

\* sum(xs) of a list of rationals
RECURSIVE RSum(_)
RSum(xs) == IF xs = <<>> THEN Zero ELSE RAdd(Head(xs), RSum(Tail(xs)))

\* sum(xs) of a list of integers
RECURSIVE ISum(_)
ISum(xs) == IF xs = <<>> THEN 0 ELSE Head(xs) + ISum(Tail(xs))

\* max(xs) of a non-empty list of integers
RECURSIVE IMax(_)
IMax(xs) ==
    IF Len(xs) = 1 THEN Head(xs)
    ELSE LET m == IMax(Tail(xs)) IN IF Head(xs) >= m THEN Head(xs) ELSE m

\* xs[:k]
Prefix(xs, k) == SubSeq(xs, 1, IF Len(xs) < k THEN Len(xs) ELSE k)
\* xs[-k:]
Suffix(xs, k) == SubSeq(xs, IF Len(xs) < k THEN 1 ELSE Len(xs) - k + 1, Len(xs))

\* |x| rounded to the nearest hundredth, ties to the even hundredth, as the
\* number of hundredths: the digits printed by the format ".2f" and kept by
\* round(x, 2).
Cents(x) ==
    LET n == Abs(x[1]) * 100
        q == n \div x[2]
        r == n % x[2]
    IN  IF 2 * r > x[2] THEN q + 1
        ELSE IF 2 * r < x[2] THEN q
        ELSE IF q % 2 = 0 THEN q ELSE q + 1

\* f"{x:.2f}": a negative number prints with a leading "-", also when its
\* digits round to 0.00; any other number starts with a digit.
Format2f(x) == <<IF x[1] < 0 THEN "-" ELSE "", Cents(x)>>

\* "+" followed by the string s, which starts with a digit
PlusSign(s) == <<"+", s[2]>>

\* s[1:] of a string that starts with a sign character
DropFirstChar(s) == <<"", s[2]>>

\* float(s)
ParseFloat(s) == IF s[1] = "-" THEN Rat(-s[2], 100) ELSE Rat(s[2], 100)

\* round(x, 2)
Round2(x) == Rat((IF x[1] < 0 THEN -1 ELSE 1) * Cents(x), 100)


(***************************************************************************)
(* Configuration tables of calculate-weather.py                            *)
(***************************************************************************)
WEATHER_THRESHOLDS ==
    [sunny |-> Rat(6, 10), partly_cloudy |-> Rat(3, 10), cloudy |-> Zero,
     rainy |-> Rat(-3, 10), stormy |-> Rat(-1, 1)]

\* The "description" of each WEATHER_INFO entry
WEATHER_INFO ==
    [sunny |-> "Bright outlook with strong signals",
     partly_cloudy |-> "Mixed signals, some uncertainty",
     cloudy |-> "Below average performance",
     rainy |-> "Concerning trends emerging",
     stormy |-> "Turbulent times ahead",
     foggy |-> "Insufficient data available"]

\* The signals in the order of the WEIGHTS table and of the list in main
SignalNames == <<"sentiment", "shipping", "market", "competitive">>
Signals == {SignalNames[k] : k \in 1..Len(SignalNames)}

WEIGHTS ==
    [sentiment |-> Rat(25, 100), shipping |-> Rat(25, 100),
     market |-> Rat(25, 100), competitive |-> Rat(25, 100)]

\* The ticker of a company; "" stands for None (private)
COMPANY_STOCK_MAP ==
    [anthropic |-> "", openai |-> "MSFT", google |-> "GOOGL", meta |-> "META"]

\* The roster, in the order main walks it
all_companies == <<"anthropic", "openai", "google", "meta">>
Companies == {all_companies[k] : k \in 1..Len(all_companies)}

\* activity[:7]: the number of entries of the activity series a score reads
RecentEntries == 7
\* the fewest price samples a market score needs
MinSamples == 10
\* history[-30:]: the trailing closes the momentum is measured against
TrailingCloses == 30
\* range(14): the weekly buckets of an activity series
ActivityWeeks == 14
\* timedelta(days=... * 7)
DaysPerWeek == 7

(***************************************************************************)
(* Documents.  A document that load_json could not read is NoneDoc.        *)
(*   mood    [none, has_sentiment, score]                                  *)
(*   buzz    [none, companies: company -> [present, sentiment, points]]    *)
(*   pulse   [none, companies: company -> [present, releases, activity]]   *)
(*   stocks  [none, stocks: list of [ticker, history]]                     *)
(* A company without an entry in "companies" has present = FALSE.          *)
(***************************************************************************)
NoneDoc == [none |-> TRUE]

\* A file on disk: missing, not JSON, or holding a document
MissingFile == [status |-> "missing"]
MalformedFile == [status |-> "malformed"]
FileOf(doc) == [status |-> "ok", content |-> doc]

load_json(file) ==
    IF file.status = "ok" THEN file.content ELSE NoneDoc

\* normalize_score without the clamp to [0, 1]
normalize_score_unclamped(value, min_val, max_val) ==
    IF max_val = min_val THEN Half
    ELSE RDiv(RSub(value, min_val), RSub(max_val, min_val))

normalize_score(value, min_val, max_val) ==
    IF max_val = min_val THEN Half
    ELSE RMax(Zero, RMin(One, RDiv(RSub(value, min_val), RSub(max_val, min_val))))

\* calculate_sentiment_score averaging the polarities as they are, in [-1, 1]
calculate_sentiment_score_raw(mood, buzz, company_id) ==
    LET blog == IF ~mood.none /\ mood.has_sentiment THEN <<mood.score>> ELSE <<>>
        company_buzz == IF buzz.none THEN [present |-> FALSE]
                        ELSE buzz.companies[company_id]
        hn_sentiment == IF company_buzz.present THEN company_buzz.sentiment ELSE Zero
        hn == IF ~buzz.none THEN <<hn_sentiment>> ELSE <<>>
        scores == blog \o hn
    IN  IF scores # <<>> THEN RDiv(RSum(scores), Int2Rat(Len(scores))) ELSE None

calculate_sentiment_score(mood, buzz, company_id) ==
    LET blog == IF ~mood.none /\ mood.has_sentiment
                THEN <<RDiv(RAdd(mood.score, One), Int2Rat(2))>>
                ELSE <<>>
        company_buzz == IF buzz.none THEN [present |-> FALSE]
                        ELSE buzz.companies[company_id]
        hn_sentiment == IF company_buzz.present THEN company_buzz.sentiment ELSE Zero
        hn == IF ~buzz.none
              THEN <<RDiv(RAdd(hn_sentiment, One), Int2Rat(2))>>
              ELSE <<>>
        scores == blog \o hn
    IN  IF scores # <<>> THEN RDiv(RSum(scores), Int2Rat(Len(scores))) ELSE None

\* company_pulse.get("activity", []) of pulse_data["companies"].get(company_id, {})
ActivityOf(pulse, company_id) ==
    IF pulse.none THEN <<>>
    ELSE IF pulse.companies[company_id].present
         THEN pulse.companies[company_id].activity
         ELSE <<>>

\* activity[:7]
RecentWindow(activity) == Prefix(activity, RecentEntries)

\* calculate_shipping_score without the min(1.0, ...)
calculate_shipping_score_unclamped(pulse, company_id) ==
    IF pulse.none THEN None
    ELSE LET activity == ActivityOf(pulse, company_id)
             recent_activity == IF Len(activity) >= RecentEntries
                                THEN RecentWindow(activity) ELSE activity
         IN  IF activity = <<>> THEN None
             ELSE LET avg_recent == Rat(ISum(recent_activity), Len(recent_activity))
                  IN  RDiv(avg_recent, Int2Rat(3))

calculate_shipping_score(pulse, company_id) ==
    IF pulse.none THEN None
    ELSE LET activity == ActivityOf(pulse, company_id)
             recent_activity == IF Len(activity) >= RecentEntries
                                THEN RecentWindow(activity) ELSE activity
         IN  IF activity = <<>> THEN None
             ELSE LET avg_recent == Rat(ISum(recent_activity), Len(recent_activity))
                  IN  RMin(One, RDiv(avg_recent, Int2Rat(3)))

\* next((s for s in stocks if s["ticker"] == ticker), None), as a list of 0 or 1
FindStock(stocks, ticker) ==
    LET hits == SelectSeq(stocks, LAMBDA s : s.ticker = ticker)
    IN  IF hits = <<>> THEN <<>> ELSE <<Head(hits)>>

\* calculate_market_score averaging every close of the history
calculate_market_score_all_closes(stocks_doc, company_id) ==
    IF stocks_doc.none THEN None
    ELSE LET ticker == COMPANY_STOCK_MAP[company_id]
             stock == FindStock(stocks_doc.stocks, ticker)
         IN  IF ticker = "" THEN None
             ELSE IF stock = <<>> THEN None
             ELSE LET history == stock[1].history
                  IN  IF Len(history) < MinSamples THEN None
                      ELSE LET recent_price == Int2Rat(history[Len(history)])
                               avg_all == Rat(ISum(history), Len(history))
                           IN  IF avg_all = Zero THEN Half
                               ELSE LET momentum == RDiv(recent_price, avg_all)
                                    IN  RMax(Zero, RMin(One,
                                            RDiv(RSub(momentum, Rat(8, 10)), Rat(4, 10))))

\* calculate_market_score asking for more than MinSamples closes
calculate_market_score_over_min(stocks_doc, company_id) ==
    IF stocks_doc.none THEN None
    ELSE LET ticker == COMPANY_STOCK_MAP[company_id]
             stock == FindStock(stocks_doc.stocks, ticker)
         IN  IF ticker = "" THEN None
             ELSE IF stock = <<>> THEN None
             ELSE LET history == stock[1].history
                  IN  IF Len(history) <= MinSamples THEN None
                      ELSE LET recent_price == Int2Rat(history[Len(history)])
                               trailing == Suffix(history, TrailingCloses)
                               avg_30d == Rat(ISum(trailing),
                                              IF Len(history) < TrailingCloses
                                              THEN Len(history) ELSE TrailingCloses)
                           IN  IF avg_30d = Zero THEN Half
                               ELSE LET momentum == RDiv(recent_price, avg_30d)
                                    IN  RMax(Zero, RMin(One,
                                            RDiv(RSub(momentum, Rat(8, 10)), Rat(4, 10))))

\* calculate_market_score reporting a zero trailing mean as absent
calculate_market_score_zero_absent(stocks_doc, company_id) ==
    IF stocks_doc.none THEN None
    ELSE LET ticker == COMPANY_STOCK_MAP[company_id]
             stock == FindStock(stocks_doc.stocks, ticker)
         IN  IF ticker = "" THEN None
             ELSE IF stock = <<>> THEN None
             ELSE LET history == stock[1].history
                  IN  IF Len(history) < MinSamples THEN None
                      ELSE LET recent_price == Int2Rat(history[Len(history)])
                               trailing == Suffix(history, TrailingCloses)
                               avg_30d == Rat(ISum(trailing),
                                              IF Len(history) < TrailingCloses
                                              THEN Len(history) ELSE TrailingCloses)
                           IN  IF avg_30d = Zero THEN None
                               ELSE LET momentum == RDiv(recent_price, avg_30d)
                                    IN  RMax(Zero, RMin(One,
                                            RDiv(RSub(momentum, Rat(8, 10)), Rat(4, 10))))

calculate_market_score(stocks_doc, company_id) ==
    IF stocks_doc.none THEN None
    ELSE LET ticker == COMPANY_STOCK_MAP[company_id]
             stock == FindStock(stocks_doc.stocks, ticker)
         IN  IF ticker = "" THEN None
             ELSE IF stock = <<>> THEN None
             ELSE LET history == stock[1].history
                  IN  IF Len(history) < MinSamples THEN None
                      ELSE LET recent_price == Int2Rat(history[Len(history)])
                               trailing == Suffix(history, TrailingCloses)
                               avg_30d == Rat(ISum(trailing),
                                              IF Len(history) < TrailingCloses
                                              THEN Len(history) ELSE TrailingCloses)
                           IN  IF avg_30d = Zero THEN Half
                               ELSE LET momentum == RDiv(recent_price, avg_30d)
                                    IN  RMax(Zero, RMin(One,
                                            RDiv(RSub(momentum, Rat(8, 10)), Rat(4, 10))))

\* buzz_data.get("companies", {}).get(c, {}).get("total_points", 0)
PointsOf(buzz, c) ==
    IF buzz.companies[c].present THEN buzz.companies[c].total_points ELSE 0

calculate_competitive_score(buzz, pulse, company_id, roster) ==
    IF buzz.none \/ pulse.none THEN None
    ELSE LET company_points == PointsOf(buzz, company_id)
             all_points == [k \in 1..Len(roster) |-> PointsOf(buzz, roster[k])]
             max_points == IF all_points # <<>> THEN IMax(all_points) ELSE 1
             by_points == IF max_points > 0
                          THEN <<Rat(company_points, max_points)>> ELSE <<>>
             company_activity == ISum(RecentWindow(ActivityOf(pulse, company_id)))
             all_activity == [k \in 1..Len(roster) |->
                                ISum(RecentWindow(ActivityOf(pulse, roster[k])))]
             max_activity == IF all_activity # <<>> THEN IMax(all_activity) ELSE 1
             by_activity == IF max_activity > 0
                            THEN <<Rat(company_activity, max_activity)>> ELSE <<>>
             scores == by_points \o by_activity
         IN  IF scores # <<>> THEN RDiv(RSum(scores), Int2Rat(Len(scores))) ELSE None

\* [v for v in all_values if v is not None]
ValidValues(all_values) == SelectSeq(all_values, LAMBDA v : v # None)

\* calculate_vs_peers dividing by the length of the whole roster, so that an
\* absent value counts as 0 in the mean
calculate_vs_peers_roster_len(value, all_values) ==
    IF value = None \/ all_values = <<>> THEN None
    ELSE LET valid_values == ValidValues(all_values)
         IN  IF valid_values = <<>> THEN None
             ELSE LET avg == RDiv(RSum(valid_values), Int2Rat(Len(all_values)))
                      diff == RSub(value, avg)
                  IN  IF RGe(diff, Zero)
                      THEN PlusSign(Format2f(diff))
                      ELSE Format2f(diff)

\* calculate_vs_peers writing the "+" only for a delta above zero
calculate_vs_peers_strict_plus(value, all_values) ==
    IF value = None \/ all_values = <<>> THEN None
    ELSE LET valid_values == ValidValues(all_values)
         IN  IF valid_values = <<>> THEN None
             ELSE LET avg == RDiv(RSum(valid_values), Int2Rat(Len(valid_values)))
                      diff == RSub(value, avg)
                  IN  IF RGt(diff, Zero)
                      THEN PlusSign(Format2f(diff))
                      ELSE Format2f(diff)

calculate_vs_peers(value, all_values) ==
    IF value = None \/ all_values = <<>> THEN None
    ELSE LET valid_values == ValidValues(all_values)
         IN  IF valid_values = <<>> THEN None
             ELSE LET avg == RDiv(RSum(valid_values), Int2Rat(Len(valid_values)))
                      diff == RSub(value, avg)
                  IN  IF RGe(diff, Zero)
                      THEN PlusSign(Format2f(diff))
                      ELSE Format2f(diff)

\* determine_weather with inclusive comparisons (>= at every threshold)
determine_weather_inclusive(score) ==
    IF score = None THEN "foggy"
    ELSE LET adjusted_score == RSub(RMul(score, Int2Rat(2)), One)
         IN  IF RGe(adjusted_score, WEATHER_THRESHOLDS.sunny) THEN "sunny"
             ELSE IF RGe(adjusted_score, WEATHER_THRESHOLDS.partly_cloudy) THEN "partly_cloudy"
             ELSE IF RGe(adjusted_score, WEATHER_THRESHOLDS.cloudy) THEN "cloudy"
             ELSE IF RGe(adjusted_score, WEATHER_THRESHOLDS.rainy) THEN "rainy"
             ELSE "stormy"

\* determine_weather comparing the composite itself, not rescaled to [-1, 1]
determine_weather_unscaled(score) ==
    IF score = None THEN "foggy"
    ELSE IF RGt(score, WEATHER_THRESHOLDS.sunny) THEN "sunny"
    ELSE IF RGt(score, WEATHER_THRESHOLDS.partly_cloudy) THEN "partly_cloudy"
    ELSE IF RGt(score, WEATHER_THRESHOLDS.cloudy) THEN "cloudy"
    ELSE IF RGt(score, WEATHER_THRESHOLDS.rainy) THEN "rainy"
    ELSE "stormy"

\* determine_weather with the names of the two lowest states exchanged
determine_weather_exchanged(score) ==
    IF score = None THEN "foggy"
    ELSE LET adjusted_score == RSub(RMul(score, Int2Rat(2)), One)
         IN  IF RGt(adjusted_score, WEATHER_THRESHOLDS.sunny) THEN "sunny"
             ELSE IF RGt(adjusted_score, WEATHER_THRESHOLDS.partly_cloudy) THEN "partly_cloudy"
             ELSE IF RGt(adjusted_score, WEATHER_THRESHOLDS.cloudy) THEN "cloudy"
             ELSE IF RGt(adjusted_score, WEATHER_THRESHOLDS.rainy) THEN "stormy"
             ELSE "rainy"

determine_weather(score) ==
    IF score = None THEN "foggy"
    ELSE LET adjusted_score == RSub(RMul(score, Int2Rat(2)), One)
         IN  IF RGt(adjusted_score, WEATHER_THRESHOLDS.sunny) THEN "sunny"
             ELSE IF RGt(adjusted_score, WEATHER_THRESHOLDS.partly_cloudy) THEN "partly_cloudy"
             ELSE IF RGt(adjusted_score, WEATHER_THRESHOLDS.cloudy) THEN "cloudy"
             ELSE IF RGt(adjusted_score, WEATHER_THRESHOLDS.rainy) THEN "rainy"
             ELSE "stormy"


\* IsStrength counting a printed delta of exactly 0.10
IsStrengthInclusive(vs_peers) ==
    /\ vs_peers # None
    /\ vs_peers[1] = "+"
    /\ RGe(ParseFloat(DropFirstChar(vs_peers)), Rat(1, 10))

\* vs_peers and vs_peers.startswith("+") and float(vs_peers[1:]) > 0.1
IsStrength(vs_peers) ==
    /\ vs_peers # None
    /\ vs_peers[1] = "+"
    /\ RGt(ParseFloat(DropFirstChar(vs_peers)), Rat(1, 10))

\* vs_peers and vs_peers.startswith("-") and float(vs_peers[1:]) < -0.1
IsWeakness(vs_peers) ==
    /\ vs_peers # None
    /\ vs_peers[1] = "-"
    /\ RLt(ParseFloat(DropFirstChar(vs_peers)), Rat(-1, 10))

\* The summary sentence: its fixed words and the signals it lists
generate_summary(signals, weather, company_id) ==
    LET strengths == SelectSeq(SignalNames, LAMBDA n : IsStrength(signals[n].vs_peers))
        weaknesses == SelectSeq(SignalNames,
                        LAMBDA n : ~IsStrength(signals[n].vs_peers)
                                   /\ IsWeakness(signals[n].vs_peers))
    IN  IF strengths # <<>> /\ weaknesses = <<>>
        THEN [text |-> "Outperforming on", strengths |-> strengths, weaknesses |-> <<>>]
        ELSE IF weaknesses # <<>> /\ strengths = <<>>
        THEN [text |-> "Challenges in", strengths |-> <<>>, weaknesses |-> weaknesses]
        ELSE IF strengths # <<>> /\ weaknesses # <<>>
        THEN [text |-> "Strong; watching", strengths |-> strengths, weaknesses |-> weaknesses]
        ELSE [text |-> WEATHER_INFO[weather], strengths |-> <<>>, weaknesses |-> <<>>]

(***************************************************************************)
(* fetch-changelogs.py: the weekly activity series of a list of releases.  *)
(* A release is [dated, day]: whether it carries a parsable date, and the  *)
(* day number of that date.                                                *)
(***************************************************************************)
\* The releases counted for one week: week_start <= release_date < week_end
\* WeekCount with the end of the week included
WeekCountClosed(releases, now, week) ==
    LET week_start == now - (week + 1) * DaysPerWeek
        week_end == now - week * DaysPerWeek
    IN  Len(SelectSeq(releases,
            LAMBDA r : r.dated /\ week_start <= r.day /\ r.day <= week_end))

WeekCount(releases, now, week) ==
    LET week_start == now - (week + 1) * DaysPerWeek
        week_end == now - week * DaysPerWeek
    IN  Len(SelectSeq(releases,
            LAMBDA r : r.dated /\ week_start <= r.day /\ r.day < week_end))

\* for week in range(14): ... activity.insert(0, count)
RECURSIVE ActivityLoop(_, _, _, _)
ActivityLoop(releases, now, week, activity) ==
    IF week = ActivityWeeks THEN activity
    ELSE ActivityLoop(releases, now, week + 1,
                      <<WeekCount(releases, now, week)>> \o activity)

calculate_activity(releases, now) == ActivityLoop(releases, now, 0, <<>>)

(***************************************************************************)
(* backfill-history.py: calculate_real_activity                            *)
(***************************************************************************)
\* The count of one week: releases with a datetime in [week_start, week_end)
RealWeekCount(releases, today, week) ==
    LET week_end == today - week * DaysPerWeek
        week_start == week_end - DaysPerWeek
    IN  Len(SelectSeq(releases,
            LAMBDA r : r.dated /\ week_start <= r.day /\ r.day < week_end))

\* for week in range(weeks - 1, -1, -1): ... activity.append(count)
RECURSIVE RealActivityLoop(_, _, _, _)
RealActivityLoop(releases, today, week, activity) ==
    IF week < 0 THEN activity
    ELSE RealActivityLoop(releases, today, week - 1,
                          Append(activity, RealWeekCount(releases, today, week)))

\* calculate_real_activity with the newest week first
calculate_real_activity_newest_first(releases, weeks, today) ==
    [k \in 1..weeks |-> RealWeekCount(releases, today, k - 1)]

calculate_real_activity(releases, weeks, today) ==
    RealActivityLoop(releases, today, weeks - 1, <<>>)

(***************************************************************************)
(* main of calculate-weather.py, second pass, for one company              *)
(***************************************************************************)
\* [all_scores[c][signal_name] for c in all_companies]
AllValues(scores, signal_name) ==
    [k \in 1..Len(all_companies) |-> scores[all_companies[k]][signal_name]]

SignalsOf(scores, company) ==
    [n \in Signals |->
        LET value == scores[company][n]
        IN  [value |-> IF value # None THEN Round2(value) ELSE None,
             vs_peers |-> calculate_vs_peers(value, AllValues(scores, n))]]

\* WeightedLoop counting the weight of an absent signal (a zero-filled score)
RECURSIVE WeightedLoopZeroFill(_, _)
WeightedLoopZeroFill(company_scores, k) ==
    IF k = 0 THEN <<Zero, Zero>>
    ELSE LET acc == WeightedLoopZeroFill(company_scores, k - 1)
             value == company_scores[SignalNames[k]]
             weight == WEIGHTS[SignalNames[k]]
         IN  IF value # None
             THEN <<RAdd(acc[1], RMul(value, weight)), RAdd(acc[2], weight)>>
             ELSE <<acc[1], RAdd(acc[2], weight)>>

\* for signal_name, weight in WEIGHTS.items(): the pair
\* <<weighted_sum, total_weight>> after the first k signals
RECURSIVE WeightedLoop(_, _)
WeightedLoop(company_scores, k) ==
    IF k = 0 THEN <<Zero, Zero>>
    ELSE LET acc == WeightedLoop(company_scores, k - 1)
             value == company_scores[SignalNames[k]]
             weight == WEIGHTS[SignalNames[k]]
         IN  IF value # None
             THEN <<RAdd(acc[1], RMul(value, weight)), RAdd(acc[2], weight)>>
             ELSE acc

\* CompositeOf giving 0 when no signal is present
CompositeOfZeroDefault(company_scores) ==
    LET acc == WeightedLoop(company_scores, Len(SignalNames))
    IN  IF RGt(acc[2], Zero) THEN RDiv(acc[1], acc[2]) ELSE Zero

\* CompositeOf that needs every signal to be present
CompositeOfAllPresent(company_scores) ==
    LET acc == WeightedLoop(company_scores, Len(SignalNames))
    IN  IF \A k \in 1..Len(SignalNames) : company_scores[SignalNames[k]] # None
        THEN RDiv(acc[1], acc[2]) ELSE None

CompositeOf(company_scores) ==
    LET acc == WeightedLoop(company_scores, Len(SignalNames))
    IN  IF RGt(acc[2], Zero) THEN RDiv(acc[1], acc[2]) ELSE None

ForecastEntry(scores, company) ==
    LET signals == SignalsOf(scores, company)
        composite == CompositeOf(scores[company])
        weather == determine_weather(composite)
    IN  [weather |-> weather,
         weather_info |-> WEATHER_INFO[weather],
         score |-> IF composite # None THEN Round2(composite) ELSE None,
         signals |-> signals,
         summary |-> generate_summary(signals, weather, company)]


(***************************************************************************)
(* The mood history: backfill-history.py, analyze-sentiment.py and         *)
(* fetch-feeds.py.  A post is [dated, datetime, sentiment, blank,          *)
(* polarity]: whether it carries a datetime and its day number, its stored *)
(* "sentiment" (None when the key is missing), whether its title and       *)
(* summary are blank, and the polarity the text analysis gives its text.   *)
(***************************************************************************)
\* |x| rounded to the nearest thousandth, ties to the even thousandth
Mills(x) ==
    LET n == Abs(x[1]) * 1000
        q == n \div x[2]
        r == n % x[2]
    IN  IF 2 * r > x[2] THEN q + 1
        ELSE IF 2 * r < x[2] THEN q
        ELSE IF q % 2 = 0 THEN q ELSE q + 1

\* round(x, 3)
Round3(x) == Rat((IF x[1] < 0 THEN -1 ELSE 1) * Mills(x), 1000)

get_mood_label(score) ==
    IF RGt(score, Rat(1, 10)) THEN "confident"
    ELSE IF RLt(score, Rat(-1, 10)) THEN "defensive"
    ELSE "cautious"

\* timedelta(days=7): the rolling window of build_mood_history
RollingWindow == 7
\* min(7, days): the entries returned when no post is dated
UndatedEntries == 7
\* build_mood_history(posts, days=30) in backfill_mood
BackfillDays == 30
\* history[-30:] in update_mood_file
HistoryCap == 30
\* posts[:20] in save_mood_data
FeedPostsKept == 20
\* posts[:10] in backfill_mood
BackfillPostsKept == 10

\* p.get("sentiment", 0)
SentimentOf(p) == IF p.sentiment = None THEN Zero ELSE p.sentiment

\* sum(p.get("sentiment", 0) for p in ps) / len(ps)
MeanSentiment(ps) ==
    RDiv(RSum([k \in 1..Len(ps) |-> SentimentOf(ps[k])]), Int2Rat(Len(ps)))

\* [x] * n
Repeat(x, n) == [k \in 1..n |-> x]

\* The posts of the window that ends day_offset days before today
WindowPosts(dated_posts, today, day_offset) ==
    LET target_date == today - day_offset
        window_start == target_date - RollingWindow
    IN  SelectSeq(dated_posts,
            LAMBDA p : p.dated /\ window_start <= p.datetime /\ p.datetime <= target_date)

\* HistoryLoop appending nothing for a day whose window is empty
RECURSIVE HistoryLoopSkipEmpty(_, _, _, _)
HistoryLoopSkipEmpty(dated_posts, today, day_offset, history) ==
    IF day_offset < 0 THEN history
    ELSE LET window_posts == WindowPosts(dated_posts, today, day_offset)
         IN  HistoryLoopSkipEmpty(dated_posts, today, day_offset - 1,
                 IF window_posts # <<>>
                 THEN Append(history, Round3(MeanSentiment(window_posts)))
                 ELSE history)

\* HistoryLoop giving the neutral 0.0 to a day whose window is empty
RECURSIVE HistoryLoopNeutral(_, _, _, _)
HistoryLoopNeutral(dated_posts, today, day_offset, history) ==
    IF day_offset < 0 THEN history
    ELSE LET window_posts == WindowPosts(dated_posts, today, day_offset)
             avg_sentiment ==
                 IF window_posts # <<>> THEN MeanSentiment(window_posts) ELSE Zero
         IN  HistoryLoopNeutral(dated_posts, today, day_offset - 1,
                                Append(history, Round3(avg_sentiment)))

\* HistoryLoop starting from the neutral 0.0 when the first window is empty
RECURSIVE HistoryLoopFirstNeutral(_, _, _, _)
HistoryLoopFirstNeutral(dated_posts, today, day_offset, history) ==
    IF day_offset < 0 THEN history
    ELSE LET window_posts == WindowPosts(dated_posts, today, day_offset)
             avg_sentiment ==
                 IF window_posts # <<>> THEN MeanSentiment(window_posts)
                 ELSE IF history # <<>> THEN history[Len(history)]
                 ELSE Zero
         IN  HistoryLoopFirstNeutral(dated_posts, today, day_offset - 1,
                                     Append(history, Round3(avg_sentiment)))

\* for day_offset in range(days - 1, -1, -1): ... history.append(...)
RECURSIVE HistoryLoop(_, _, _, _)
HistoryLoop(dated_posts, today, day_offset, history) ==
    IF day_offset < 0 THEN history
    ELSE LET window_posts == WindowPosts(dated_posts, today, day_offset)
             avg_sentiment ==
                 IF window_posts # <<>> THEN MeanSentiment(window_posts)
                 ELSE IF history # <<>> THEN history[Len(history)]
                 ELSE MeanSentiment(dated_posts)
         IN  HistoryLoop(dated_posts, today, day_offset - 1,
                         Append(history, Round3(avg_sentiment)))

\* today is datetime.now().  dated_posts.sort only fixes the order in which
\* the sentiments of a window are summed.
build_mood_history(posts, days, today) ==
    IF posts = <<>> THEN <<>>
    ELSE LET dated_posts == SelectSeq(posts, LAMBDA p : p.dated)
         IN  IF dated_posts = <<>>
             THEN Repeat(Round3(MeanSentiment(posts)),
                         IF UndatedEntries < days THEN UndatedEntries ELSE days)
             ELSE HistoryLoop(dated_posts, today, days - 1, <<>>)

\* A mood document as the drivers write it
MoodData(sentiment, posts, history) ==
    [none |-> FALSE, sentiment |-> sentiment, posts |-> posts, history |-> history]

\* history.append(point); history[-30:], without the cut
AppendHistoryUncut(history, point) == Append(history, point)

\* AppendHistory appending the point twice
AppendHistoryTwice(history, point) ==
    Suffix(Append(Append(history, point), point), HistoryCap)

\* history.append(point); history[-30:]
AppendHistory(history, point) == Suffix(Append(history, point), HistoryCap)

\* analyze-sentiment.py: the file after update_mood_file.  A file that cannot
\* be read, or has no posts, is left as it is.
update_mood_file(file) ==
    IF file.status # "ok" THEN file
    ELSE LET data == file.content
         IN  IF data.posts = <<>> THEN file
             ELSE LET analysed == SelectSeq(data.posts, LAMBDA p : ~p.blank)
                      scores == [k \in 1..Len(analysed) |-> analysed[k].polarity]
                      posts == [k \in 1..Len(data.posts) |->
                                   IF ~data.posts[k].blank
                                   THEN [data.posts[k] EXCEPT
                                            !.sentiment = Round3(data.posts[k].polarity)]
                                   ELSE data.posts[k]]
                  IN  IF scores # <<>>
                      THEN LET avg_score == RDiv(RSum(scores), Int2Rat(Len(scores)))
                           IN  FileOf(MoodData(
                                   [score |-> Round3(avg_score),
                                    label |-> get_mood_label(avg_score)],
                                   posts,
                                   AppendHistory(data.history, Round3(avg_score))))
                      ELSE FileOf(MoodData(data.sentiment, posts, data.history))

\* fetch-feeds.py: json.load of the file if it exists and parses, else None
load_existing_data(file) == IF file.status = "ok" THEN file.content ELSE NoneDoc

\* save_mood_data starting the document afresh
save_mood_data_afresh(file, posts) ==
    FileOf(MoodData([score |-> Zero, label |-> "cautious"],
                    Prefix(posts, FeedPostsKept), <<>>))

\* fetch-feeds.py: the file after save_mood_data
save_mood_data(file, posts) ==
    LET existing == load_existing_data(file)
        history == IF ~existing.none THEN existing.history ELSE <<>>
        sentiment == IF ~existing.none THEN existing.sentiment
                     ELSE [score |-> Zero, label |-> "cautious"]
    IN  FileOf(MoodData(sentiment, Prefix(posts, FeedPostsKept), history))

\* backfill-history.py, lines 334-369: the file backfill_mood writes for a
\* company.  recent_posts is every post when there are at most 10.
backfill_mood(posts, today) ==
    LET history == build_mood_history(posts, BackfillDays, today)
        avg_score == IF posts # <<>> THEN MeanSentiment(posts) ELSE Zero
        kept == Prefix(posts, BackfillPostsKept)
        output_posts == [k \in 1..Len(kept) |->
                            [kept[k] EXCEPT !.dated = FALSE, !.datetime = 0,
                                            !.sentiment = SentimentOf(kept[k])]]
    IN  FileOf(MoodData([score |-> Round3(avg_score),
                         label |-> get_mood_label(avg_score)],
                        output_posts, history))

(***************************************************************************)
(* The documents a run may find on disk                                    *)
(***************************************************************************)
\* The day number of the run's "now"
Today == 100
\* The largest total_points of a buzz entry
MaxPoints == 3
\* First-pass scores given directly are multiples of 1/ScoreGrid
ScoreGrid == 20

MoodDoc(p) == [none |-> FALSE, has_sentiment |-> TRUE, score |-> p]
Polarities == {Rat(-1, 1), Zero, One}
MoodFiles == {MissingFile} \cup {FileOf(MoodDoc(p)) : p \in Polarities}

NoEntry == [present |-> FALSE]
BuzzEntry(p, k) == [present |-> TRUE, sentiment |-> p, total_points |-> k]
BuzzEntries ==
    {NoEntry, BuzzEntry(Rat(-1, 1), 0), BuzzEntry(Zero, 1), BuzzEntry(One, MaxPoints)}
BuzzDoc(entries) == [none |-> FALSE, companies |-> entries]

\* Releases dated the given numbers of days before Today; -1 is an undated one
ReleasesAged(ages) ==
    [k \in 1..Len(ages) |->
        [dated |-> ages[k] >= 0, day |-> IF ages[k] >= 0 THEN Today - ages[k] ELSE 0]]
ReleaseLists ==
    {ReleasesAged(<<>>),
     ReleasesAged(<<3, 5, 7>>),
     ReleasesAged(<<60, 95, -1, 120>>),
     ReleasesAged(<<2, 60, 61, 62, 63>>)}
\* The entry fetch-changelogs writes for a company
PulseEntry(releases) ==
    [present |-> TRUE,
     releases |-> Prefix(releases, 10),
     activity |-> calculate_activity(releases, Today)]
PulseEntries == {NoEntry} \cup {PulseEntry(r) : r \in ReleaseLists}
PulseDoc(entries) == [none |-> FALSE, companies |-> entries]
\* Three releases in each of the weeks 8 to 14 before Today
SteadyReleases ==
    ReleasesAged([k \in 1..21 |->
        DaysPerWeek * (7 + ((k - 1) \div 3)) + 1 + ((k - 1) % 3)])
\* An entry with an activity series of any length, as in a document that
\* fetch-changelogs did not write
SeriesEntry(activity) ==
    [present |-> TRUE, releases |-> <<>>, activity |-> activity]
OtherPulseEntries ==
    {NoEntry, SeriesEntry(<<>>), SeriesEntry(<<1, 2>>), SeriesEntry(<<5>>),
     PulseEntry(SteadyReleases)}

Histories ==
    {Repeat(100, MinSamples - 1),
     Repeat(100, MinSamples),
     <<200>> \o Repeat(100, TrailingCloses - 1) \o <<110>>}
\* Ten closes whose latest is 1.0, 1.2, 0.8, more than 1.2 and less than 0.8
\* times their mean
MomentumHistories ==
    {Repeat(100, MinSamples),
     Repeat(22, MinSamples - 1) \o <<27>>,
     Repeat(23, MinSamples - 1) \o <<18>>,
     Repeat(10, MinSamples - 1) \o <<20>>,
     Repeat(20, MinSamples - 1) \o <<10>>}
\* Closes whose trailing mean is zero: ten zero closes, and thirty zero
\* closes after a close of 50
ZeroHistories ==
    {Repeat(0, MinSamples),
     <<50>> \o Repeat(0, TrailingCloses),
     Repeat(100, MinSamples)}
\* The stocks list: one entry per ticker that has one
StocksDoc(h) ==
    [none |-> FALSE,
     stocks |-> SelectSeq([k \in 1..3 |->
                    [ticker |-> <<"MSFT", "GOOGL", "META">>[k], history |-> h[k]]],
                    LAMBDA st : st.history # <<>>)]

BaseMood ==
    {[c \in Companies |-> MissingFile],
     [anthropic |-> FileOf(MoodDoc(One)), openai |-> FileOf(MoodDoc(Zero)),
      google |-> FileOf(MoodDoc(Rat(-1, 1))), meta |-> FileOf(MoodDoc(Zero))]}
RichMood == [Companies -> MoodFiles]

BaseBuzz ==
    {MissingFile,
     FileOf(BuzzDoc([anthropic |-> BuzzEntry(One, MaxPoints),
                     openai |-> BuzzEntry(Zero, 1),
                     google |-> BuzzEntry(Rat(-1, 1), 0),
                     meta |-> BuzzEntry(Zero, 1)]))}
RichBuzz ==
    {MissingFile, MalformedFile}
    \cup {FileOf(BuzzDoc(e)) : e \in [Companies -> BuzzEntries]}

BasePulse ==
    {MissingFile,
     FileOf(PulseDoc([anthropic |-> PulseEntry(ReleasesAged(<<3, 5, 7>>)),
                      openai |-> PulseEntry(ReleasesAged(<<2, 60, 61, 62, 63>>)),
                      google |-> PulseEntry(ReleasesAged(<<60, 95, -1, 120>>)),
                      meta |-> PulseEntry(ReleasesAged(<<>>))]))}
RichPulse ==
    {MissingFile} \cup {FileOf(PulseDoc(e)) : e \in [Companies -> PulseEntries]}
    \cup {FileOf(PulseDoc([anthropic |-> a, openai |-> b, google |-> c, meta |-> d])) :
            a \in OtherPulseEntries, b \in OtherPulseEntries,
            c \in {NoEntry, PulseEntry(SteadyReleases)},
            d \in {NoEntry, PulseEntry(SteadyReleases)}}

BaseStocks ==
    {MissingFile,
     FileOf(StocksDoc(<<<<200>> \o Repeat(100, TrailingCloses - 1) \o <<110>>,
                        Repeat(100, MinSamples), Repeat(100, MinSamples - 1)>>))}
RichStocks ==
    {MissingFile}
    \cup {FileOf(StocksDoc(h)) : h \in [1..3 -> Histories \cup {<<>>}]}
    \cup {FileOf(StocksDoc(h)) : h \in [1..3 -> MomentumHistories]}
    \cup {FileOf(StocksDoc(h)) : h \in [1..3 -> ZeroHistories]}

\* One family of documents ranges over its rich set, the others over their
\* base sets.
InputFiles ==
    (RichMood \X BaseBuzz \X BasePulse \X BaseStocks)
    \cup (BaseMood \X RichBuzz \X BasePulse \X BaseStocks)
    \cup (BaseMood \X BaseBuzz \X RichPulse \X BaseStocks)
    \cup (BaseMood \X BaseBuzz \X BasePulse \X RichStocks)

(***************************************************************************)
(* State of one forecast run (main of calculate-weather.py)                *)
(***************************************************************************)
VARIABLES
    mood_files,      \* company -> the file data/mood/<company>.json
    pulse_file,      \* data/pulse/releases.json
    stocks_file,     \* data/pressure/stocks.json
    buzz_file,       \* data/buzz/hackernews.json
    mood_data,       \* company -> the loaded mood document
    pulse_data,      \* the loaded documents
    stocks_data,
    buzz_data,
    all_scores,      \* company -> (signal -> score), filled by the first pass
    composite_score, \* company -> the composite of its second-pass iteration
    forecast,        \* company -> forecast entry, filled by the second pass
    forecast_file,   \* the forecast document written at the end
    pc,              \* "load", "pass1", "pass2", "save", "done"
    i,               \* position in all_companies of the company to process next
    mood_store,      \* the mood file of one company, as the mood drivers see it
    runs,            \* the number of mood driver runs so far
    call,            \* a call of a function on its own: [fn, args]
    result           \* the value the call returned: [done, value]

vars == <<mood_files, pulse_file, stocks_file, buzz_file, mood_data, pulse_data,
          stocks_data, buzz_data, all_scores, composite_score, forecast,
          forecast_file, pc, i, mood_store, runs, call, result>>

files == <<mood_files, pulse_file, stocks_file, buzz_file>>
loaded == <<mood_data, pulse_data, stocks_data, buzz_data>>
mood_vars == <<mood_store, runs>>
call_vars == <<call, result>>

\* A function with no key yet: the empty dict
EmptyDict == <<>>

\* lines 239-253: load every document, start the first pass
LoadData ==
    /\ pc = "load"
    /\ mood_data' = [c \in Companies |-> load_json(mood_files[c])]
    /\ pulse_data' = load_json(pulse_file)
    /\ stocks_data' = load_json(stocks_file)
    /\ buzz_data' = load_json(buzz_file)
    /\ all_scores' = [c \in Companies |-> EmptyDict]
    /\ pc' = "pass1"
    /\ i' = 1
    /\ UNCHANGED <<files, composite_score, forecast, forecast_file, mood_vars, call_vars>>

\* FirstPassScores giving up every signal as soon as one document is missing
FirstPassScoresAllOrNothing(company) ==
    IF \/ mood_data[company].none \/ buzz_data.none
       \/ pulse_data.none \/ stocks_data.none
    THEN [sentiment |-> None, shipping |-> None, market |-> None, competitive |-> None]
    ELSE [sentiment |-> calculate_sentiment_score(mood_data[company], buzz_data, company),
          shipping |-> calculate_shipping_score(pulse_data, company),
          market |-> calculate_market_score(stocks_data, company),
          competitive |-> calculate_competitive_score(buzz_data, pulse_data, company,
                                                      all_companies)]

\* The four first-pass scores of one company
FirstPassScores(company) ==
    [sentiment |-> calculate_sentiment_score(mood_data[company], buzz_data, company),
     shipping |-> calculate_shipping_score(pulse_data, company),
     market |-> calculate_market_score(stocks_data, company),
     competitive |-> calculate_competitive_score(buzz_data, pulse_data, company,
                                                 all_companies)]

\* FirstPass as a single loop: the company just scored is compared and
\* classified at once, against the companies scored so far
FirstPassSingleLoop ==
    /\ pc = "pass1"
    /\ LET company == all_companies[i]
           scored == [all_scores EXCEPT ![company] = FirstPassScores(company)]
           so_far == [c \in Companies |->
                         IF DOMAIN scored[c] = {} THEN [n \in Signals |-> None]
                         ELSE scored[c]]
       IN  /\ all_scores' = scored
           /\ composite_score' = (company :> CompositeOf(so_far[company]))
                                    @@ composite_score
           /\ forecast' = (company :> ForecastEntry(so_far, company)) @@ forecast
    /\ IF i = Len(all_companies)
       THEN pc' = "pass2" /\ i' = 1
       ELSE pc' = pc /\ i' = i + 1
    /\ UNCHANGED <<files, loaded, forecast_file, mood_vars, call_vars>>

\* lines 255-263: one iteration of the first loop
FirstPass ==
    /\ pc = "pass1"
    /\ all_scores' = [all_scores EXCEPT ![all_companies[i]] =
                        FirstPassScores(all_companies[i])]
    /\ IF i = Len(all_companies)
       THEN pc' = "pass2" /\ i' = 1
       ELSE pc' = pc /\ i' = i + 1
    /\ UNCHANGED <<files, loaded, composite_score, forecast, forecast_file, mood_vars, call_vars>>

\* lines 268-302: one iteration of the second loop
SecondPass ==
    /\ pc = "pass2"
    /\ LET company == all_companies[i]
       IN  /\ composite_score' = (company :> CompositeOf(all_scores[company]))
                                    @@ composite_score
           /\ forecast' = (company :> ForecastEntry(all_scores, company)) @@ forecast
    /\ IF i = Len(all_companies)
       THEN pc' = "save" /\ i' = 1
       ELSE pc' = pc /\ i' = i + 1
    /\ UNCHANGED <<files, loaded, all_scores, forecast_file, mood_vars, call_vars>>

\* lines 304-321: write the forecast document
SaveForecast ==
    /\ pc = "save"
    /\ forecast_file' = FileOf(forecast)
    /\ pc' = "done"
    /\ UNCHANGED <<files, loaded, all_scores, composite_score, forecast, i, mood_vars, call_vars>>

Next == LoadData \/ FirstPass \/ SecondPass \/ SaveForecast


\* No mood driver has run and no function is called on its own
NoCall == [fn |-> "", args |-> <<>>]
NoResult == [done |-> FALSE]
Returned(value) == [done |-> TRUE, value |-> value]
MoodIdle == mood_store = MissingFile /\ runs = 0
CallIdle == call = NoCall /\ result = NoResult

Init ==
    /\ MoodIdle
    /\ CallIdle
    /\ \E f \in InputFiles :
        /\ mood_files = f[1]
        /\ buzz_file = f[2]
        /\ pulse_file = f[3]
        /\ stocks_file = f[4]
    /\ mood_data = [c \in Companies |-> NoneDoc]
    /\ pulse_data = NoneDoc
    /\ stocks_data = NoneDoc
    /\ buzz_data = NoneDoc
    /\ all_scores = EmptyDict
    /\ composite_score = EmptyDict
    /\ forecast = EmptyDict
    /\ forecast_file = MissingFile
    /\ pc = "load"
    /\ i = 1

Spec == Init /\ [][Next]_vars

\* Every combination of missing documents: each document is missing or is
\* the one of the second base input
PresentMood == CHOOSE f \in BaseMood : \A c \in Companies : f[c] # MissingFile
MissingCombinations ==
    [Companies -> {MissingFile} \cup {PresentMood[c] : c \in Companies}]
    \X BaseBuzz \X BasePulse \X BaseStocks

InitMissing ==
    /\ MoodIdle
    /\ CallIdle
    /\ \E f \in MissingCombinations :
        /\ mood_files = f[1]
        /\ buzz_file = f[2]
        /\ pulse_file = f[3]
        /\ stocks_file = f[4]
    /\ mood_data = [c \in Companies |-> NoneDoc]
    /\ pulse_data = NoneDoc
    /\ stocks_data = NoneDoc
    /\ buzz_data = NoneDoc
    /\ all_scores = EmptyDict
    /\ composite_score = EmptyDict
    /\ forecast = EmptyDict
    /\ forecast_file = MissingFile
    /\ pc = "load"
    /\ i = 1

\* main is one sequential program: its next step is always taken.  This is
\* WF_vars(Next) with ENABLED <<Next>>_vars written out: every action of Next
\* has its pc test for only guard, so a step is enabled until pc is "done".
DegradeSpec ==
    InitMissing /\ [][Next]_vars /\ ([]<>(pc = "done") \/ []<><<Next>>_vars)


(***************************************************************************)
(* The second pass on its own: main from line 265 on, over a snapshot of   *)
(* first-pass scores given directly.                                       *)
(***************************************************************************)
Uniform(v) == [n \in Signals |-> v]
CoarseScores == {None, Zero, Half, One}
FineScores ==
    {Rat(k, ScoreGrid) : k \in 0..ScoreGrid} \cup {Rat(99, 200), Rat(41, 200)}
\* The first company: any mix of coarse scores, or one fine score on every
\* signal; the others: one coarse score on every signal.
Snapshots ==
    {[anthropic |-> a, openai |-> Uniform(b), google |-> Uniform(c), meta |-> Uniform(d)] :
        a \in [Signals -> CoarseScores] \cup {Uniform(v) : v \in FineScores},
        b \in CoarseScores, c \in CoarseScores, d \in CoarseScores}

InitSecondPass ==
    /\ MoodIdle
    /\ CallIdle
    /\ mood_files = [c \in Companies |-> MissingFile]
    /\ buzz_file = MissingFile
    /\ pulse_file = MissingFile
    /\ stocks_file = MissingFile
    /\ mood_data = [c \in Companies |-> NoneDoc]
    /\ pulse_data = NoneDoc
    /\ stocks_data = NoneDoc
    /\ buzz_data = NoneDoc
    /\ all_scores \in Snapshots
    /\ composite_score = EmptyDict
    /\ forecast = EmptyDict
    /\ forecast_file = MissingFile
    /\ pc = "pass2"
    /\ i = 1

NextSecondPass == SecondPass \/ SaveForecast

SecondPassSpec == InitSecondPass /\ [][NextSecondPass]_vars


(***************************************************************************)
(* The forecast run at rest, for the specifications below                  *)
(***************************************************************************)
forecast_vars == <<files, loaded, all_scores, composite_score, forecast,
                   forecast_file, pc, i>>

ForecastIdle ==
    /\ mood_files = [c \in Companies |-> MissingFile]
    /\ buzz_file = MissingFile
    /\ pulse_file = MissingFile
    /\ stocks_file = MissingFile
    /\ mood_data = [c \in Companies |-> NoneDoc]
    /\ pulse_data = NoneDoc
    /\ stocks_data = NoneDoc
    /\ buzz_data = NoneDoc
    /\ all_scores = EmptyDict
    /\ composite_score = EmptyDict
    /\ forecast = EmptyDict
    /\ forecast_file = MissingFile
    /\ pc = "done"
    /\ i = 1

(***************************************************************************)
(* Posts                                                                   *)
(***************************************************************************)
\* A post dated age days before Today, with its sentiment
DatedPost(age, sentiment) ==
    [dated |-> TRUE, datetime |-> Today - age, sentiment |-> sentiment,
     blank |-> FALSE, polarity |-> sentiment]
\* A post without a datetime ("datetime": None)
UndatedPost(sentiment) ==
    [dated |-> FALSE, datetime |-> 0, sentiment |-> sentiment,
     blank |-> FALSE, polarity |-> sentiment]
\* A post as fetch-feeds collects it: no sentiment yet
FeedPost(blank, polarity) ==
    [dated |-> FALSE, datetime |-> 0, sentiment |-> None,
     blank |-> blank, polarity |-> polarity]

BackfillPostLists ==
    {<<>>,
     <<UndatedPost(Rat(1, 3)), UndatedPost(Rat(2, 3))>>,
     <<DatedPost(0, Half)>>,
     <<DatedPost(3, Rat(4, 5)), DatedPost(20, Rat(-1, 3))>>,
     <<DatedPost(5, Rat(1, 3)), DatedPost(6, Half), DatedPost(20, Rat(-1, 2))>>,
     <<UndatedPost(One), DatedPost(12, Rat(2, 3)), DatedPost(40, Rat(-1, 1))>>,
     <<DatedPost(45, Rat(1, 3))>>}

FeedPostLists ==
    {<<>>,
     <<FeedPost(TRUE, Zero)>>,
     <<FeedPost(FALSE, Rat(1, 3)), FeedPost(TRUE, Zero)>>,
     <<FeedPost(FALSE, Rat(-1, 2)), FeedPost(FALSE, Rat(1, 4))>>}

(***************************************************************************)
(* Functions called on their own: normalize_score (calculate-weather.py)   *)
(* and build_mood_history (backfill-history.py)                            *)
(***************************************************************************)
\* The arguments of normalize_score are halves between -1 and NormalizeRange
NormalizeRange == 3
NormalizeGrid == {Rat(k, 2) : k \in -2..(2 * NormalizeRange)}
NormalizeCalls ==
    {[fn |-> "normalize_score", args |-> <<v, lo, hi>>] :
        v \in NormalizeGrid, lo \in NormalizeGrid, hi \in NormalizeGrid}

\* The numbers of days asked of build_mood_history
DayCounts == {1, 5, 8, BackfillDays}
HistoryCalls ==
    {[fn |-> "build_mood_history", args |-> <<posts, days>>] :
        posts \in BackfillPostLists, days \in DayCounts}

\* Release lists with releases on the edges of the weeks, without a date,
\* older than the series and on the day of the run
ActivityReleaseLists ==
    {ReleasesAged(<<>>),
     ReleasesAged(<<0, 1, 7, 8>>),
     ReleasesAged(<<97, 98, 99, -1>>),
     ReleasesAged(<<14, 14, 50, -1, 130>>),
     ReleasesAged(<<3, 21, 22, 91, 98, 105>>)}
\* The clock readings of the runs
ActivityClocks == {Today, Today + 1, Today + 6}
ActivityCalls ==
    {[fn |-> "calculate_activity", args |-> <<releases, now>>] :
        releases \in ActivityReleaseLists, now \in ActivityClocks}
RealActivityCalls ==
    {[fn |-> "calculate_real_activity", args |-> <<releases, ActivityWeeks, now>>] :
        releases \in ActivityReleaseLists, now \in ActivityClocks}

\* Composites given to determine_weather are multiples of 1/WeatherGrid
WeatherGrid == 20
CompositeGrid == {Rat(k, WeatherGrid) : k \in 0..WeatherGrid}
\* Two calls of determine_weather, one after the other
WeatherCalls ==
    {[fn |-> "determine_weather", args |-> <<c1, c2>>] :
        c1 \in CompositeGrid, c2 \in CompositeGrid}

CallNormalizeScore ==
    /\ call.fn = "normalize_score"
    /\ ~result.done
    /\ result' = Returned(normalize_score(call.args[1], call.args[2], call.args[3]))
    /\ UNCHANGED <<call, mood_vars, forecast_vars>>

CallBuildMoodHistory ==
    /\ call.fn = "build_mood_history"
    /\ ~result.done
    /\ result' = Returned(build_mood_history(call.args[1], call.args[2], Today))
    /\ UNCHANGED <<call, mood_vars, forecast_vars>>

CallCalculateActivity ==
    /\ call.fn = "calculate_activity"
    /\ ~result.done
    /\ result' = Returned(calculate_activity(call.args[1], call.args[2]))
    /\ UNCHANGED <<call, mood_vars, forecast_vars>>

CallCalculateRealActivity ==
    /\ call.fn = "calculate_real_activity"
    /\ ~result.done
    /\ result' = Returned(calculate_real_activity(call.args[1], call.args[2],
                                                  call.args[3]))
    /\ UNCHANGED <<call, mood_vars, forecast_vars>>

CallDetermineWeather ==
    /\ call.fn = "determine_weather"
    /\ ~result.done
    /\ result' = Returned(<<determine_weather(call.args[1]),
                            determine_weather(call.args[2])>>)
    /\ UNCHANGED <<call, mood_vars, forecast_vars>>

InitFunction ==
    /\ ForecastIdle
    /\ MoodIdle
    /\ call \in NormalizeCalls \cup HistoryCalls \cup ActivityCalls
                \cup RealActivityCalls \cup WeatherCalls
    /\ result = NoResult

NextFunction ==
    \/ CallNormalizeScore
    \/ CallBuildMoodHistory
    \/ CallCalculateActivity
    \/ CallCalculateRealActivity
    \/ CallDetermineWeather

FunctionSpec == InitFunction /\ [][NextFunction]_vars

(***************************************************************************)
(* The mood drivers run one after the other on the mood file of a company: *)
(* fetch-feeds.py, analyze-sentiment.py and backfill-history.py.           *)
(***************************************************************************)
\* The most driver runs in a behaviour
MaxRuns == 4

\* A history of n distinct points, oldest first
HistoryOf(n) == [k \in 1..n |-> Rat(k, 1000)]

InitialStores ==
    {MissingFile, MalformedFile}
    \cup {FileOf(MoodData([score |-> Zero, label |-> "cautious"],
                          <<FeedPost(FALSE, Rat(3, 4))>>, HistoryOf(n))) :
            n \in {0, HistoryCap - 1, HistoryCap}}

\* fetch-feeds.py main, lines 557-563, for one company
FetchFeeds ==
    /\ runs < MaxRuns
    /\ \E posts \in FeedPostLists : mood_store' = save_mood_data(mood_store, posts)
    /\ runs' = runs + 1
    /\ UNCHANGED <<call_vars, forecast_vars>>

\* analyze-sentiment.py main, lines 79-80, for one file
AnalyzeSentiment ==
    /\ runs < MaxRuns
    /\ mood_store.status # "missing"
    /\ mood_store' = update_mood_file(mood_store)
    /\ runs' = runs + 1
    /\ UNCHANGED <<call_vars, forecast_vars>>

\* backfill-history.py backfill_mood, lines 334-369, for one company
BackfillMood ==
    /\ runs < MaxRuns
    /\ \E posts \in BackfillPostLists : mood_store' = backfill_mood(posts, Today)
    /\ runs' = runs + 1
    /\ UNCHANGED <<call_vars, forecast_vars>>

InitMood ==
    /\ ForecastIdle
    /\ CallIdle
    /\ mood_store \in InitialStores
    /\ runs = 0

NextMood == FetchFeeds \/ AnalyzeSentiment \/ BackfillMood

MoodSpec == InitMood /\ [][NextMood]_vars


(***************************************************************************)
(* Properties                                                              *)
(***************************************************************************)
\* The companies whose second-pass iteration has run
Forecasted == DOMAIN forecast
\* The companies whose first-pass iteration has run
Scored == IF pc = "load" THEN {}
          ELSE {c \in Companies : DOMAIN all_scores[c] # {}}

\* C1 (as amended): a composite of exactly 0.5 (adjusted score exactly 0.0)
\* is classified rainy: the comparison with the cloudy threshold is strict.
C1_HalfIsRainy ==
    \A c \in Forecasted :
        composite_score[c] = Half => forecast[c].weather = "rainy"

\* C1 (as stated): a composite of exactly 0.5 is classified cloudy, not rainy.
C1_HalfIsCloudy ==
    \A c \in Forecasted :
        composite_score[c] = Half => forecast[c].weather = "cloudy"

C1_Witness ==
    \E c \in Forecasted : composite_score[c] = Half

\* C2: with a = 2c - 1 for a present composite c, the state is sunny if
\* a > 0.6, partly_cloudy if 0.3 < a <= 0.6, cloudy if 0 < a <= 0.3, rainy if
\* -0.3 < a <= 0 and stormy otherwise; composite 1 is sunny, composite 0 stormy.
C2_Bands ==
    \A c \in Forecasted :
        composite_score[c] # None =>
            LET a == RSub(RMul(Int2Rat(2), composite_score[c]), One)
                w == forecast[c].weather
            IN  /\ RGt(a, Rat(6, 10)) => w = "sunny"
                /\ RGt(a, Rat(3, 10)) /\ RLe(a, Rat(6, 10)) => w = "partly_cloudy"
                /\ RGt(a, Zero) /\ RLe(a, Rat(3, 10)) => w = "cloudy"
                /\ RGt(a, Rat(-3, 10)) /\ RLe(a, Zero) => w = "rainy"
                /\ RLe(a, Rat(-3, 10)) => w = "stormy"
                /\ composite_score[c] = One => w = "sunny"
                /\ composite_score[c] = Zero => w = "stormy"

\* A composite whose adjusted score is exactly 0.3 is cloudy, beside one whose
\* adjusted score is exactly 0.0 and is rainy.
C2_Witness ==
    \E c, d \in Forecasted :
        /\ composite_score[c] = Rat(13, 20) /\ forecast[c].weather = "cloudy"
        /\ composite_score[d] = Half /\ forecast[d].weather = "rainy"

\* C3: a company whose four first-pass scores are all absent gets an absent
\* composite (not 0) and the state foggy, never stormy.
AllAbsent(c) == \A n \in Signals : all_scores[c][n] = None

C3_AllAbsentIsFoggy ==
    \A c \in Forecasted :
        AllAbsent(c) =>
            /\ composite_score[c] = None
            /\ forecast[c].score = None
            /\ forecast[c].weather = "foggy"
            /\ forecast[c].weather # "stormy"

\* A company without any signal is forecast beside one that has a composite.
C3_Witness ==
    \E c, d \in Forecasted :
        /\ AllAbsent(c)
        /\ composite_score[d] # None

\* C4: with at least one signal present, the composite times the sum of the
\* weights of the present signals equals the sum of score x weight over the
\* present signals; an absent signal adds to neither sum.
PresentWeight(cs, n) == IF cs[n] = None THEN Zero ELSE WEIGHTS[n]
PresentTerm(cs, n) == IF cs[n] = None THEN Zero ELSE RMul(cs[n], WEIGHTS[n])
SumOfWeights(cs) ==
    RAdd(RAdd(PresentWeight(cs, "sentiment"), PresentWeight(cs, "shipping")),
         RAdd(PresentWeight(cs, "market"), PresentWeight(cs, "competitive")))
SumOfTerms(cs) ==
    RAdd(RAdd(PresentTerm(cs, "sentiment"), PresentTerm(cs, "shipping")),
         RAdd(PresentTerm(cs, "market"), PresentTerm(cs, "competitive")))
PresentSignals(cs) == {n \in Signals : cs[n] # None}

C4_Renormalized ==
    \A c \in Forecasted :
        PresentSignals(all_scores[c]) # {} =>
            /\ composite_score[c] # None
            /\ RMul(composite_score[c], SumOfWeights(all_scores[c]))
                 = SumOfTerms(all_scores[c])

\* Two signals present with a positive sum and two absent: the zero-filled
\* average would differ.
C4_Witness ==
    \E c \in Forecasted :
        /\ Cardinality(PresentSignals(all_scores[c])) = 2
        /\ SumOfTerms(all_scores[c]) # Zero
        /\ composite_score[c] # SumOfTerms(all_scores[c])

\* C5: the end-to-end scenario
E2EScores ==
    [anthropic |-> Uniform(One), openai |-> Uniform(Half),
     google |-> Uniform(Zero), meta |-> Uniform(None)]
E2ECommon ==
    /\ composite_score =
         [anthropic |-> One, openai |-> Half, google |-> Zero, meta |-> None]
    /\ forecast["anthropic"].weather = "sunny"
    /\ forecast["google"].weather = "stormy"
    /\ forecast["meta"].weather = "foggy"
    /\ \A n \in Signals : forecast["anthropic"].signals[n].vs_peers = <<"+", 50>>

\* C5 (as amended): composites 1.0, 0.5, 0.0, absent; states sunny, rainy,
\* stormy, foggy; "+0.50" on every signal of the first company.
C5_EndToEndRainy ==
    (all_scores = E2EScores /\ pc = "save") =>
        (E2ECommon /\ forecast["openai"].weather = "rainy")

\* C5 (as stated): states sunny, cloudy, stormy, foggy.
C5_EndToEndCloudy ==
    (all_scores = E2EScores /\ pc = "save") =>
        (E2ECommon /\ forecast["openai"].weather = "cloudy")

C5_Witness == all_scores = E2EScores /\ pc = "save"


\* C6: the activity entries calculate_shipping_score averages are those of the
\* seven most recent weeks: for an entry written by fetch-changelogs, the
\* score is min(1, (releases dated in the 7 weeks before now / 7) / 3).
RecentReleases(entry) ==
    Len(SelectSeq(entry.releases,
        LAMBDA r : r.dated /\ Today - 7 * DaysPerWeek <= r.day /\ r.day < Today))

C6_MostRecentWeeks ==
    \A c \in Scored :
        (/\ ~pulse_data.none
         /\ pulse_data.companies[c].present
         /\ Len(pulse_data.companies[c].activity) = ActivityWeeks) =>
            all_scores[c].shipping =
                RMin(One, RDiv(Rat(RecentReleases(pulse_data.companies[c]), 7),
                               Int2Rat(3)))

\* C7: the sentiment score is the mean of the rescaled polarities of exactly
\* the sources that exist for the company (its mood sentiment, its own entry
\* of the buzz document), and absent when neither exists.
ExistingSources(c) ==
    (IF ~mood_data[c].none /\ mood_data[c].has_sentiment
     THEN <<RDiv(RAdd(mood_data[c].score, One), Int2Rat(2))>> ELSE <<>>)
    \o (IF ~buzz_data.none /\ buzz_data.companies[c].present
        THEN <<RDiv(RAdd(buzz_data.companies[c].sentiment, One), Int2Rat(2))>>
        ELSE <<>>)

C7_ExistingSourcesOnly ==
    \A c \in Scored :
        all_scores[c].sentiment =
            IF ExistingSources(c) = <<>> THEN None
            ELSE RDiv(RSum(ExistingSources(c)), Int2Rat(Len(ExistingSources(c))))

\* C8: the competitive score is absent only when both components are
\* unavailable; with exactly one available it equals that component.
RosterMaxPoints ==
    IMax([k \in 1..Len(all_companies) |-> PointsOf(buzz_data, all_companies[k])])
RosterMaxActivity ==
    IMax([k \in 1..Len(all_companies) |->
            ISum(RecentWindow(ActivityOf(pulse_data, all_companies[k])))])
PointsComponent(c) ==
    IF ~buzz_data.none /\ RosterMaxPoints > 0
    THEN <<Rat(PointsOf(buzz_data, c), RosterMaxPoints)>> ELSE <<>>
ActivityComponent(c) ==
    IF ~pulse_data.none /\ RosterMaxActivity > 0
    THEN <<Rat(ISum(RecentWindow(ActivityOf(pulse_data, c))), RosterMaxActivity)>>
    ELSE <<>>

C8_OneComponentSuffices ==
    \A c \in Scored :
        LET available == PointsComponent(c) \o ActivityComponent(c)
        IN  /\ all_scores[c].competitive = None <=> available = <<>>
            /\ Len(available) = 1 => all_scores[c].competitive = available[1]

\* C9: vs_peers is absent when the company's own value is absent and when no
\* other company has a present value for the signal; the company's own value
\* and composite are computed all the same.
NoPeerValue(c, n) ==
    \A d \in Companies \ {c} : all_scores[d][n] = None

C9_AbsentWithoutPeers ==
    \A c \in Forecasted : \A n \in Signals :
        /\ all_scores[c][n] = None => forecast[c].signals[n].vs_peers = None
        /\ NoPeerValue(c, n) => forecast[c].signals[n].vs_peers = None
        /\ all_scores[c][n] # None =>
              /\ forecast[c].signals[n].value = Round2(all_scores[c][n])
              /\ composite_score[c] # None

\* C10: for a present value v, vs_peers is v minus the mean of the present
\* roster values (v included), printed with two decimals, with a leading "+"
\* when the delta is >= 0 and a leading "-" when it is < 0.
RosterTotal(n) ==
    RAdd(RAdd(IF all_scores["anthropic"][n] = None THEN Zero ELSE all_scores["anthropic"][n],
              IF all_scores["openai"][n] = None THEN Zero ELSE all_scores["openai"][n]),
         RAdd(IF all_scores["google"][n] = None THEN Zero ELSE all_scores["google"][n],
              IF all_scores["meta"][n] = None THEN Zero ELSE all_scores["meta"][n]))
RosterCount(n) == Cardinality({d \in Companies : all_scores[d][n] # None})
Delta(c, n) == RSub(all_scores[c][n], RDiv(RosterTotal(n), Int2Rat(RosterCount(n))))

C10_SignedDelta ==
    \A c \in Forecasted : \A n \in Signals :
        all_scores[c][n] # None =>
            LET vs == forecast[c].signals[n].vs_peers
                above == RGt(RMul(all_scores[c][n], Int2Rat(RosterCount(n))), RosterTotal(n))
                below == RLt(RMul(all_scores[c][n], Int2Rat(RosterCount(n))), RosterTotal(n))
            IN  /\ vs # None
                /\ vs[2] = Cents(Delta(c, n))
                /\ ~below => vs[1] = "+"
                /\ above => vs[1] = "+"
                /\ below => vs[1] = "-"

\* One company above the mean with a "+" string, one at the mean with
\* "+0.00", and one below the mean whose digits round to "-0.00".
C10_Witness ==
    \E c, d, e \in Forecasted : \E n \in Signals :
        /\ all_scores[c][n] # None /\ all_scores[d][n] # None /\ all_scores[e][n] # None
        /\ RGt(Delta(c, n), Zero) /\ forecast[c].signals[n].vs_peers[1] = "+"
        /\ RLt(Delta(d, n), Zero) /\ forecast[d].signals[n].vs_peers = <<"-", 0>>
        /\ forecast[d].signals[n].vs_peers[1] = "-"
        /\ forecast[e].signals[n].vs_peers[1] = "+"


\* C11: a signal whose peer delta is below -0.10 is listed as a weakness; the
\* summary is "Challenges in <weaknesses>" when no signal is a strength and
\* "Strong <strengths>; watching <weaknesses>" when some signal is.
WeakSignals(c) ==
    SelectSeq(SignalNames,
        LAMBDA n : all_scores[c][n] # None /\ RLt(Delta(c, n), Rat(-1, 10)))

C11_WeaknessListed ==
    \A c \in Forecasted :
        WeakSignals(c) # <<>> =>
            /\ forecast[c].summary.weaknesses = WeakSignals(c)
            /\ forecast[c].summary.strengths = <<>> =>
                   forecast[c].summary.text = "Challenges in"
            /\ forecast[c].summary.strengths # <<>> =>
                   forecast[c].summary.text = "Strong; watching"


\* C12 (as amended): a signal is listed as a strength exactly when its peer
\* delta is non-negative and, rounded to two decimals as printed in vs_peers,
\* exceeds 0.10; with no signal whose printed delta exceeds +0.10 or is below
\* -0.10 the summary is the fixed description of the weather state.
PrintedStrengths(c) ==
    SelectSeq(SignalNames,
        LAMBDA n : /\ all_scores[c][n] # None
                   /\ RGe(Delta(c, n), Zero)
                   /\ Cents(Delta(c, n)) > 10)
PrintedWeaknesses(c) ==
    SelectSeq(SignalNames,
        LAMBDA n : /\ all_scores[c][n] # None
                   /\ RLt(Delta(c, n), Zero)
                   /\ Cents(Delta(c, n)) > 10)

C12_PrintedDeltaStrength ==
    \A c \in Forecasted :
        /\ forecast[c].summary.strengths = PrintedStrengths(c)
        /\ (PrintedStrengths(c) = <<>> /\ PrintedWeaknesses(c) = <<>>) =>
               forecast[c].summary.text = WEATHER_INFO[forecast[c].weather]

\* C12 (as stated): a signal is listed as a strength exactly when its peer
\* delta, the value minus the roster mean, exceeds +0.10.
DeltaStrengths(c) ==
    SelectSeq(SignalNames,
        LAMBDA n : all_scores[c][n] # None /\ RGt(Delta(c, n), Rat(1, 10)))

C12_DeltaStrength ==
    \A c \in Forecasted :
        /\ forecast[c].summary.strengths = DeltaStrengths(c)
        /\ (DeltaStrengths(c) = <<>> /\ WeakSignals(c) = <<>>) =>
               forecast[c].summary.text = WEATHER_INFO[forecast[c].weather]

\* A company with a delta between 0.10 and 0.105, printed "+0.10": the signal
\* is not listed and the summary is the description of its weather state.
C12_Witness ==
    \E d \in Forecasted :
        /\ DeltaStrengths(d) # <<>>
        /\ \E n \in Signals : forecast[d].signals[n].vs_peers = <<"+", 10>>
        /\ forecast[d].summary.strengths = <<>>
        /\ PrintedWeaknesses(d) = <<>>
        /\ forecast[d].summary.text = WEATHER_INFO[forecast[d].weather]


\* The calls of build_mood_history that have returned
HistoryReturned == call.fn = "build_mood_history" /\ result.done
SomePostDated == \E k \in 1..Len(call.args[1]) : call.args[1][k].dated
\* The dated posts with day_offset <= age <= day_offset + 7 before today
PostsInWindow(posts, day_offset) ==
    SelectSeq(posts,
        LAMBDA p : p.dated /\ Today - day_offset - 7 <= p.datetime
                           /\ p.datetime <= Today - day_offset)
SentimentMean(ps) ==
    RDiv(RSum([k \in 1..Len(ps) |-> IF ps[k].sentiment = None THEN Zero
                                     ELSE ps[k].sentiment]),
         Int2Rat(Len(ps)))
IsNumber(x) == x # None /\ Len(x) = 2 /\ x[2] > 0

\* C13 (as amended): build_mood_history(posts, N) returns exactly N values,
\* oldest first (the last one is the value of today's window), each a number,
\* whenever some post is dated; with posts but no dated one it returns
\* min(7, N) copies of the rounded mean of all posts, and for no post the
\* empty list.
C13_LengthWhenDated ==
    HistoryReturned =>
        LET posts == call.args[1]
            N == call.args[2]
            history == result.value
        IN  /\ SomePostDated =>
                /\ Len(history) = N
                /\ \A k \in 1..N : IsNumber(history[k])
                /\ PostsInWindow(posts, 0) # <<>> =>
                       history[N] = Round3(SentimentMean(PostsInWindow(posts, 0)))
            /\ (posts # <<>> /\ ~SomePostDated) =>
                /\ Len(history) = IF N < 7 THEN N ELSE 7
                /\ \A k \in 1..Len(history) : history[k] = Round3(SentimentMean(posts))
            /\ posts = <<>> => history = <<>>

\* C13 (as stated): the returned sequence has length N for every list of posts.
C13_LengthAlways ==
    HistoryReturned => Len(result.value) = call.args[2]

\* A call for 30 days with dated posts whose windows leave days uncovered
C13_Witness ==
    /\ HistoryReturned
    /\ SomePostDated
    /\ call.args[2] = BackfillDays
    /\ Len(result.value) = BackfillDays
    /\ PostsInWindow(call.args[1], 0) # <<>>
    /\ \E d \in 0..(BackfillDays - 1) : PostsInWindow(call.args[1], d) = <<>>


\* C14: in the sequence build_mood_history returns from dated posts, the value
\* of a day after the first whose trailing 7-day window holds no dated post
\* equals the value of the day before it (carry-forward); the value of a day
\* whose window holds dated posts is the mean of their sentiments rounded to
\* 3 decimals.
C14_CarryForward ==
    (HistoryReturned /\ SomePostDated) =>
        LET posts == call.args[1]
            N == call.args[2]
            history == result.value
        IN  \A k \in 1..Len(history) :
                LET window == PostsInWindow(posts, N - k)
                IN  /\ (k > 1 /\ window = <<>>) => history[k] = history[k - 1]
                    /\ window # <<>> => history[k] = Round3(SentimentMean(window))

\* A returned history with a covered day followed by an uncovered one that
\* carries a non-zero value forward, and a window of several posts whose mean
\* is not a multiple of 0.001.
C14_Witness ==
    /\ HistoryReturned
    /\ SomePostDated
    /\ \E k \in 2..Len(result.value) :
          /\ PostsInWindow(call.args[1], call.args[2] - k) = <<>>
          /\ PostsInWindow(call.args[1], call.args[2] - k + 1) # <<>>
          /\ result.value[k] = result.value[k - 1]
          /\ result.value[k] # Zero
    /\ \E k \in 1..Len(result.value) :
          /\ Len(PostsInWindow(call.args[1], call.args[2] - k)) > 1
          /\ result.value[k] # SentimentMean(PostsInWindow(call.args[1], call.args[2] - k))


\* C15: starting from a stored history of at most 30 points, after any
\* sequence of runs of fetch-feeds, analyze-sentiment and backfill the stored
\* history has at most 30 points; when update_mood_file appends to a history
\* of 30 points the oldest one is dropped, the others keep their order and
\* the new point comes last.
StoredHistory == IF mood_store.status = "ok" THEN mood_store.content.history ELSE <<>>
AnalysedPolarities ==
    LET analysed == SelectSeq(mood_store.content.posts, LAMBDA p : ~p.blank)
    IN  [k \in 1..Len(analysed) |-> analysed[k].polarity]
AppendsToFullHistory ==
    /\ AnalyzeSentiment
    /\ mood_store.status = "ok"
    /\ Len(mood_store.content.history) = 30
    /\ AnalysedPolarities # <<>>

C15_HistoryCapped ==
    /\ [](Len(StoredHistory) <= 30)
    /\ [][AppendsToFullHistory =>
            mood_store'.content.history =
                Tail(mood_store.content.history)
                \o <<Round3(RDiv(RSum(AnalysedPolarities),
                                 Int2Rat(Len(AnalysedPolarities))))>>]_vars

\* The full initial history after one appending run of update_mood_file: its
\* first point is gone, the others moved up, a new point is last.
C15_Witness ==
    /\ runs >= 1
    /\ Len(StoredHistory) = 30
    /\ \A k \in 1..29 : StoredHistory[k] = HistoryOf(30)[k + 1]
    /\ StoredHistory[30] = Rat(3, 4)


\* The history of the company's ticker in the loaded stocks document; <<>>
\* when the company has no ticker or the ticker no entry
TickerHistory(c) ==
    IF stocks_data.none \/ COMPANY_STOCK_MAP[c] = "" THEN <<>>
    ELSE LET entries == {k \in 1..Len(stocks_data.stocks) :
                            stocks_data.stocks[k].ticker = COMPANY_STOCK_MAP[c]}
         IN  IF entries = {} THEN <<>>
             ELSE stocks_data.stocks[CHOOSE k \in entries : \A j \in entries : k <= j].history
\* The sum of the trailing min(30, N) closes
TrailingSum(h) == ISum(SubSeq(h, IF Len(h) > 30 THEN Len(h) - 29 ELSE 1, Len(h)))
TrailingCount(h) == IF Len(h) > 30 THEN 30 ELSE Len(h)
\* m = latest close / mean of the trailing closes
MomentumOf(h) == Rat(h[Len(h)] * TrailingCount(h), TrailingSum(h))
\* clamp[0,1](x)
Clamp01(x) == IF RLt(x, Zero) THEN Zero ELSE IF RGt(x, One) THEN One ELSE x

C17_MarketAbsence ==
    \A c \in Scored :
        /\ COMPANY_STOCK_MAP[c] = "" => all_scores[c].market = None
        /\ Len(TickerHistory(c)) < 10 => all_scores[c].market = None
        /\ Len(TickerHistory(c)) = 10 => all_scores[c].market # None

\* One run scoring a company without ticker beside a ticker with exactly 10
\* closes (present), one with 9 closes and one without entry (both absent).
C17_Witness ==
    /\ ~stocks_data.none
    /\ "anthropic" \in Scored /\ all_scores["anthropic"].market = None
    /\ \E c, d, e \in Scored :
          /\ Len(TickerHistory(c)) = 10 /\ all_scores[c].market # None
          /\ Len(TickerHistory(d)) = 9 /\ all_scores[d].market = None
          /\ COMPANY_STOCK_MAP[e] # "" /\ TickerHistory(e) = <<>>
          /\ all_scores[e].market = None


\* The activity series of the company in the loaded pulse document; <<>> when
\* the company has no entry
ActivitySeries(c) ==
    IF pulse_data.companies[c].present THEN pulse_data.companies[c].activity ELSE <<>>
\* The mean of the entries calculate_shipping_score selects: the first seven,
\* or all of a shorter series
SelectedMean(a) ==
    LET n == IF Len(a) < 7 THEN Len(a) ELSE 7
    IN  Rat(ISum(SubSeq(a, 1, n)), n)

NormalizeReturned == call.fn = "normalize_score" /\ result.done

\* C19: normalize_score(v, lo, hi) lies in [0, 1] for every v whenever
\* lo != hi, and is exactly 0.5 when lo = hi; for lo < hi a value at or below
\* lo gives 0, a value at or above hi gives 1, and a value in between is
\* rescaled linearly.
C19_NormalizeRange ==
    NormalizeReturned =>
        LET v == call.args[1]
            lo == call.args[2]
            hi == call.args[3]
            r == result.value
        IN  /\ lo # hi => RLe(Zero, r) /\ RLe(r, One)
            /\ lo = hi => r = Half
            /\ RLt(lo, hi) =>
                  /\ RLe(v, lo) => r = Zero
                  /\ RGe(v, hi) => r = One
                  /\ (RLt(lo, v) /\ RLt(v, hi)) =>
                        RMul(r, RSub(hi, lo)) = RSub(v, lo)

\* A returned call with lo < v < hi whose result is strictly between 0 and 1
\* and is not 0.5
C19_Witness ==
    /\ NormalizeReturned
    /\ RLt(call.args[2], call.args[1]) /\ RLt(call.args[1], call.args[3])
    /\ RGt(result.value, Zero) /\ RLt(result.value, Half)


InUnitInterval(x) == RLe(Zero, x) /\ RLe(x, One)

\* C20: for input documents within their domains (polarities in [-1, 1],
\* non-negative activity counts and points, positive prices) every present
\* signal score and every present composite lies in [0, 1].
C20_ScoresInUnitInterval ==
    /\ \A c \in Scored : \A n \in Signals :
          all_scores[c][n] # None => InUnitInterval(all_scores[c][n])
    /\ \A c \in Forecasted :
          composite_score[c] # None => InUnitInterval(composite_score[c])

\* A company forecast with its four scores present, one of them 1.0 and one
\* 0.0, and a composite strictly between 0 and 1
C20_Witness ==
    \E c \in Forecasted :
        /\ \A n \in Signals : all_scores[c][n] # None
        /\ \E n \in Signals : all_scores[c][n] = One
        /\ \E n \in Signals : all_scores[c][n] = Zero
        /\ RGt(composite_score[c], Zero) /\ RLt(composite_score[c], One)


\* What each document holds for a company, read from the files on disk
MoodOnDisk(c) == mood_files[c].status = "ok"
BuzzOnDisk == buzz_file.status = "ok"
PulseOnDisk == pulse_file.status = "ok"
StocksOnDisk == stocks_file.status = "ok"
SeriesOnDisk(c) ==
    IF PulseOnDisk /\ pulse_file.content.companies[c].present
    THEN pulse_file.content.companies[c].activity ELSE <<>>
ClosesOnDisk(c) ==
    IF ~StocksOnDisk THEN <<>>
    ELSE LET hits == SelectSeq(stocks_file.content.stocks,
                               LAMBDA e : e.ticker = COMPANY_STOCK_MAP[c])
         IN  IF hits = <<>> THEN <<>> ELSE hits[1].history
RosterHasPoints ==
    BuzzOnDisk /\ \E d \in Companies :
        /\ buzz_file.content.companies[d].present
        /\ buzz_file.content.companies[d].total_points > 0
RosterHasActivity ==
    \E d \in Companies : ISum(SubSeq(SeriesOnDisk(d), 1,
                              IF Len(SeriesOnDisk(d)) < 7 THEN Len(SeriesOnDisk(d)) ELSE 7)) > 0

\* C21: whatever documents are missing, the run comes to its end and writes a
\* forecast with an entry for every company of the roster, and a signal is
\* absent only if a document that feeds it is missing or holds nothing for
\* the company; the signals whose documents are there are computed.
DegradedScores ==
    /\ pc \in {"save", "done"} => DOMAIN forecast = Companies
    /\ pc = "done" => forecast_file = FileOf(forecast)
    /\ \A c \in Forecasted : \A n \in Signals :
          forecast[c].signals[n].value = None <=> all_scores[c][n] = None
    /\ \A c \in Scored :
          /\ all_scores[c].sentiment = None <=> (~MoodOnDisk(c) /\ ~BuzzOnDisk)
          /\ all_scores[c].shipping = None <=> SeriesOnDisk(c) = <<>>
          /\ all_scores[c].market = None <=> Len(ClosesOnDisk(c)) < 10
          /\ (BuzzOnDisk /\ PulseOnDisk /\ (RosterHasPoints \/ RosterHasActivity)) =>
                all_scores[c].competitive # None
          /\ all_scores[c].competitive = None =>
                (~BuzzOnDisk \/ ~PulseOnDisk \/ (~RosterHasPoints /\ ~RosterHasActivity))

C21_MissingDocumentsDegrade ==
    /\ []DegradedScores
    /\ <>(pc = "done" /\ forecast_file.status = "ok"
                      /\ DOMAIN forecast_file.content = Companies)

\* A finished run with the buzz document and one mood document missing: the
\* company without mood document has no sentiment, another has one from its
\* mood document alone, and shipping and market scores are present.
C21_Witness ==
    /\ pc = "done"
    /\ ~BuzzOnDisk
    /\ \E c, d \in Companies :
          /\ ~MoodOnDisk(c) /\ all_scores[c].sentiment = None
          /\ MoodOnDisk(d) /\ all_scores[d].sentiment # None
          /\ forecast[d].weather # "foggy"
    /\ \E c \in Companies : all_scores[c].shipping # None
    /\ \E c \in Companies : all_scores[c].market # None
    /\ forecast_file.status = "ok"


\* C22: no peer comparison, composite or classification exists before the
\* four first-pass scores of every company of the roster are computed, and
\* every vs_peers is the delta against the mean over the complete roster's
\* first-pass scores.
C22_TwoPasses ==
    /\ pc \in {"load", "pass1"} => (forecast = EmptyDict /\ composite_score = EmptyDict)
    /\ (Forecasted # {} \/ DOMAIN composite_score # {}) =>
          /\ Scored = Companies
          /\ \A c \in Companies : DOMAIN all_scores[c] = Signals
    /\ \A c \in Forecasted : \A n \in Signals :
          all_scores[c][n] # None =>
              /\ forecast[c].signals[n].vs_peers # None
              /\ forecast[c].signals[n].vs_peers[2] = Cents(Delta(c, n))

\* The first company of the roster is forecast, the last is not yet, and the
\* first one's delta on some signal counts the value of the last.
C22_Witness ==
    /\ pc = "pass2"
    /\ "anthropic" \in Forecasted /\ "meta" \notin Forecasted
    /\ \E n \in Signals :
          /\ all_scores["anthropic"][n] # None /\ all_scores["meta"][n] # None
          /\ all_scores["openai"][n] = None /\ all_scores["google"][n] = None
          /\ all_scores["anthropic"][n] # all_scores["meta"][n]
          /\ forecast["anthropic"].signals[n].vs_peers[2] # 0


StoredSentiment ==
    IF mood_store.status = "ok" THEN mood_store.content.sentiment ELSE None
ScorablePosts ==
    IF mood_store.status = "ok"
    THEN SelectSeq(mood_store.content.posts, LAMBDA p : ~p.blank) ELSE <<>>
ScoredPoint ==
    Round3(RDiv(RSum([k \in 1..Len(ScorablePosts) |-> ScorablePosts[k].polarity]),
                Int2Rat(Len(ScorablePosts))))

C24_OnePointPerRun ==
    [][AnalyzeSentiment =>
          IF ScorablePosts # <<>>
          THEN /\ Len(StoredHistory) < 30 => StoredHistory' = StoredHistory \o <<ScoredPoint>>
               /\ Len(StoredHistory) = 30 =>
                     StoredHistory' = Tail(StoredHistory) \o <<ScoredPoint>>
          ELSE /\ StoredHistory' = StoredHistory
               /\ StoredSentiment' = StoredSentiment]_vars

\* The history after two runs of update_mood_file on the store that began
\* with no point: one point per run.
C24_Witness ==
    /\ runs = 2
    /\ StoredHistory = <<Rat(3, 4), Rat(3, 4)>>
    /\ StoredSentiment.score = Rat(3, 4)


\* C25: save_mood_data replaces the posts of the mood document and leaves the
\* history and sentiment of a readable document as they were; with no
\* readable document it writes an empty history and the neutral sentiment
\* {score 0.0, label cautious}.
StoredPosts ==
    IF mood_store.status = "ok" THEN mood_store.content.posts ELSE <<>>
NeutralSentiment == [score |-> Zero, label |-> "cautious"]

C25_SavePreservesHistory ==
    [][FetchFeeds =>
          /\ mood_store'.status = "ok"
          /\ \E posts \in FeedPostLists :
                StoredPosts' = SubSeq(posts, 1, IF Len(posts) < 20 THEN Len(posts) ELSE 20)
          /\ IF mood_store.status = "ok"
             THEN /\ StoredHistory' = StoredHistory
                  /\ StoredSentiment' = StoredSentiment
             ELSE /\ StoredHistory' = <<>>
                  /\ StoredSentiment' = NeutralSentiment]_vars

\* A scored document with a one-point history whose posts were then replaced
\* by unscored ones: analyse, then fetch.
C25_Witness ==
    /\ runs = 2
    /\ StoredHistory = <<Rat(3, 4)>>
    /\ StoredSentiment.score = Rat(3, 4)
    /\ StoredPosts # <<>>
    /\ \A k \in 1..Len(StoredPosts) : StoredPosts[k].sentiment = None


\* C26: the weekly activity series has exactly 14 buckets, oldest week first;
\* bucket k counts the dated releases of the half-open week
\* [now - 7 * (15 - k), now - 7 * (14 - k)), so a dated release is counted at
\* most once, a release without a date or older than 14 weeks is counted
\* nowhere, and the buckets sum to no more than the number of dated releases.
ActivityReturned ==
    /\ result.done
    /\ call.fn \in {"calculate_activity", "calculate_real_activity"}
SeriesReleases == call.args[1]
SeriesClock == call.args[Len(call.args)]
InWeekBucket(r, k) ==
    /\ r.dated
    /\ SeriesClock - 7 * (15 - k) <= r.day
    /\ r.day < SeriesClock - 7 * (14 - k)
CountedIn(k) ==
    Cardinality({j \in 1..Len(SeriesReleases) : InWeekBucket(SeriesReleases[j], k)})
DatedReleases == {j \in 1..Len(SeriesReleases) : SeriesReleases[j].dated}
CountedReleases ==
    {j \in DatedReleases : /\ SeriesClock - 98 <= SeriesReleases[j].day
                           /\ SeriesReleases[j].day < SeriesClock}

C26_FourteenBuckets ==
    ActivityReturned =>
        /\ Len(result.value) = 14
        /\ \A k \in 1..14 : result.value[k] = CountedIn(k)
        /\ ISum(result.value) = Cardinality(CountedReleases)
        /\ ISum(result.value) <= Cardinality(DatedReleases)

\* A series over releases of which one has no date, one is older than the 14
\* weeks and one falls on the first day of the oldest week.
C26_Witness ==
    /\ ActivityReturned
    /\ call.fn = "calculate_activity"
    /\ \E j \in 1..Len(SeriesReleases) : ~SeriesReleases[j].dated
    /\ \E j \in DatedReleases : SeriesReleases[j].day < SeriesClock - 98
    /\ \E j \in DatedReleases : SeriesReleases[j].day = SeriesClock - 98
    /\ result.value[1] = 2
    /\ ISum(result.value) < Cardinality(DatedReleases)

\* C27: on the same releases and the same current time calculate_activity and
\* calculate_real_activity with weeks = 14 return the same series in the same
\* order.
C27_SameSeries ==
    /\ (result.done /\ call.fn = "calculate_activity") =>
          result.value = calculate_real_activity(call.args[1], 14, call.args[2])
    /\ (result.done /\ call.fn = "calculate_real_activity") =>
          result.value = calculate_activity(call.args[1], call.args[3])

\* A series returned by calculate_real_activity that reads differently from
\* its two ends.
C27_Witness ==
    /\ result.done
    /\ call.fn = "calculate_real_activity"
    /\ call.args[2] = 14
    /\ result.value[14] > 0
    /\ result.value[1] = 0
    /\ \E k \in 2..13 : result.value[k] > 0


\* C28: in every forecast entry the weather is foggy exactly when the
\* composite is absent, and the composite is absent exactly when all four
\* signal scores are absent; a company with a present signal is never foggy.
SignalsPresent(c) == {s \in Signals : all_scores[c][s] # None}

C28_FoggyIffNoSignal ==
    \A c \in Forecasted :
        /\ forecast[c].weather = "foggy" <=> composite_score[c] = None
        /\ forecast[c].score = None <=> composite_score[c] = None
        /\ composite_score[c] = None <=> SignalsPresent(c) = {}
        /\ SignalsPresent(c) # {} => forecast[c].weather # "foggy"
        /\ \A s \in Signals :
              forecast[c].signals[s].value = None <=> s \notin SignalsPresent(c)

\* A finished run with a foggy company and a company that has exactly one
\* present signal and a weather.
C28_Witness ==
    /\ pc = "done"
    /\ \E c \in Companies : forecast[c].weather = "foggy" /\ SignalsPresent(c) = {}
    /\ \E c \in Companies :
          /\ Cardinality(SignalsPresent(c)) = 1
          /\ forecast[c].weather \in {"stormy", "rainy", "cloudy", "partly_cloudy", "sunny"}


\* C29: determine_weather is monotone on present composites: with
\* stormy < rainy < cloudy < partly_cloudy < sunny, the state of c1 is not
\* better than the state of c2 whenever c1 <= c2 in [0, 1], and each present
\* composite gets exactly one of these five states.
WeatherRank ==
    [stormy |-> 1, rainy |-> 2, cloudy |-> 3, partly_cloudy |-> 4, sunny |-> 5]
WeatherReturned == result.done /\ call.fn = "determine_weather"

C29_WeatherMonotone ==
    WeatherReturned =>
        /\ \A k \in 1..2 : result.value[k] \in DOMAIN WeatherRank
        /\ RLe(call.args[1], call.args[2]) =>
              WeatherRank[result.value[1]] <= WeatherRank[result.value[2]]
        /\ call.args[1] = call.args[2] => result.value[1] = result.value[2]

\* Two composites on either side of a threshold.
C29_Witness ==
    /\ WeatherReturned
    /\ RLt(call.args[1], call.args[2])
    /\ result.value = <<"cloudy", "partly_cloudy">>


\* C30: for a tracked ticker with at least 10 closes whose trailing
\* min(30, N) closes have mean zero, the market score is the present value
\* 0.5.
C30_ZeroMeanIsNeutral ==
    \A c \in Scored :
        LET h == TickerHistory(c)
        IN  (Len(h) >= 10 /\ TrailingSum(h) = 0) =>
                /\ all_scores[c].market # None
                /\ all_scores[c].market = Half

\* One run scoring a ticker with ten zero closes beside a ticker whose last
\* thirty closes are zero after a close that is not.
C30_Witness ==
    \E c, d \in Scored :
        /\ Len(TickerHistory(c)) = 10 /\ TrailingSum(TickerHistory(c)) = 0
        /\ all_scores[c].market = Half
        /\ Len(TickerHistory(d)) > 30 /\ TickerHistory(d)[1] > 0
        /\ TrailingSum(TickerHistory(d)) = 0
        /\ all_scores[d].market = Half

====
